---- MODULE Spec2Model ----
(***************************************************************************)
(* Model of scripts/versions.py: the version update / validate tool.       *)
(* Text is a sequence of one-character strings.  A compiled regular        *)
(* expression is a sequence of items (a character class with a quantifier, *)
(* or an assertion) matched with Python's greedy backtracking priority.    *)
(***************************************************************************)
EXTENDS Integers, Sequences, FiniteSets, TLC

\* ---------------------------------------------------------------- text
Upper == <<"A","B","C","D","E","F","G","H","I","J","K","L","M","N","O","P","Q","R","S","T","U","V","W","X","Y","Z">>
Lower == <<"a","b","c","d","e","f","g","h","i","j","k","l","m","n","o","p","q","r","s","t","u","v","w","x","y","z">>
Digits == {"0","1","2","3","4","5","6","7","8","9"}
Whitespace == {" ", "\t", "\n", "\r", "\f"}
At == "@"

\* str.lower() on one character
lower_char(c) ==
  IF \E i \in 1..Len(Upper) : Upper[i] = c
  THEN Lower[CHOOSE i \in 1..Len(Upper) : Upper[i] = c]
  ELSE c

\* str.lower()
lower(s) == [i \in 1..Len(s) |-> lower_char(s[i])]

\* str.startswith
startswith(s, p) == Len(s) >= Len(p) /\ SubSeq(s, 1, Len(p)) = p

\* s[n:]
Drop(s, n) == SubSeq(s, n + 1, Len(s))

lowercase_first_char(s) ==
  IF s # <<>> THEN <<lower_char(s[1])>> \o Drop(s, 1) ELSE s

\* ---------------------------------------------------------------- regular expressions
Item(q, cls, ch) == <<[q |-> q, cls |-> cls, ch |-> ch]>>
BOL == Item("^", "", "")
EOL == Item("$", "", "")
AnyStar == Item("*", "any", "")
SpaceStar == Item("*", "space", "")
\* a literal text: one item that matches the whole text
Lit(s) == IF s = <<>> THEN <<>> ELSE Item("s", "lit", s)
QuoteClass == Item("1", "quote", "")

InClass(c, it) ==
  CASE it.cls = "any" -> TRUE
    [] it.cls = "space" -> c \in Whitespace
    [] it.cls = "digit" -> c \in Digits
    [] it.cls = "nzdigit" -> c \in Digits \ {"0"}
    [] it.cls = "dot" -> c # "\n"
    [] it.cls = "quote" -> c \in {"\"", "'"}
    [] OTHER -> <<c>> = it.ch

\* characters re.escape puts a backslash in front of
SpecialChars ==
  {"(", ")", "[", "]", "{", "}", "?", "*", "+", "-", "|", "^", "$", "\\", ".",
   "&", "~", "#", " ", "\t", "\n", "\r", "\f"}

Max(S) == CHOOSE x \in S : \A y \in S : y <= x
Min(S) == CHOOSE x \in S : \A y \in S : x <= y

\* the k-th smallest element of a set of numbers
Nth(S, k) == CHOOSE e \in S : Cardinality({x \in S : x <= e}) = k

\* re.escape: a backslash in front of every special character (the text is escaped
\* half by half)
RECURSIVE re_escape(_)
re_escape(s) ==
  IF s = <<>> THEN <<>>
  ELSE IF Len(s) = 1 THEN (IF s[1] \in SpecialChars THEN <<"\\", s[1]>> ELSE s)
  ELSE re_escape(SubSeq(s, 1, Len(s) \div 2)) \o re_escape(Drop(s, Len(s) \div 2))

\* the character at offset i of the text t is a backslash that escapes the next one:
\* an even number of backslashes precedes it
Escapes(t, i) ==
  /\ t[i] = "\\" /\ i < Len(t)
  /\ Max({n \in 0..(i - 1) : \A j \in 1..n : t[i - j] = "\\"}) % 2 = 0

\* the character at offset i is a bare dot
BareDot(t, i) == t[i] = "." /\ ~(i > 1 /\ Escapes(t, i - 1))

\* the items an escaped text compiles to when it is substituted into a template: a
\* backslash makes the next character a literal, a bare dot is the dot class, and
\* consecutive literal characters make one literal text
CompileText(t) ==
  LET before(i) == IF i > 1 /\ Escapes(t, i - 1) THEN i - 2 ELSE i - 1
      starts == {i \in 1..Len(t) :
                   /\ ~Escapes(t, i)
                   /\ BareDot(t, i) \/ before(i) = 0 \/ BareDot(t, before(i))}
      end(i) == Min({j \in (i + 1)..Len(t) : BareDot(t, j)} \cup {Len(t) + 1})
      text(i) == LET keep(h) == ~Escapes(t, h)
                     at == SelectSeq([h \in 1..(end(i) - i) |-> i + h - 1], keep)
                 IN [n \in 1..Len(at) |-> t[at[n]]]
  IN [n \in 1..Cardinality(starts) |->
        LET i == Nth(starts, n)
        IN IF BareDot(t, i) THEN Item("1", "dot", "")[1] ELSE Lit(text(i))[1]]

\* number of consecutive characters of s from offset pos that are in the class of it
Run(s, pos, it) ==
  IF it.cls = "any" THEN Len(s) - pos
  ELSE Max({n \in 0..(Len(s) - pos) : \A j \in 1..n : InClass(s[pos + j], it)})

\* Match items i.. of re against s from offset pos.  n1 is the number of items of
\* group 1.  The result is <<>> when there is no match, else <<end of group 1, end>>.
\* A quantified item is greedy: of the repetition counts that let the rest match,
\* the backtracking search finds the largest first.
RECURSIVE MatchFrom(_, _, _, _, _)
MatchFrom(re, n1, i, s, pos) ==
  LET it == re[i]
      r == IF i > Len(re) THEN <<pos, pos>>
           ELSE IF it.q = "^" THEN (IF pos = 0 THEN MatchFrom(re, n1, i + 1, s, pos) ELSE <<>>)
           ELSE IF it.q = "$"
             THEN (IF pos = Len(s) \/ (pos = Len(s) - 1 /\ s[Len(s)] = "\n")
                   THEN MatchFrom(re, n1, i + 1, s, pos) ELSE <<>>)
           ELSE IF it.q = "s"
             THEN (IF pos + Len(it.ch) <= Len(s) /\ SubSeq(s, pos + 1, pos + Len(it.ch)) = it.ch
                   THEN MatchFrom(re, n1, i + 1, s, pos + Len(it.ch)) ELSE <<>>)
           ELSE IF it.q = "1"
             THEN (IF pos < Len(s) /\ InClass(s[pos + 1], it)
                   THEN MatchFrom(re, n1, i + 1, s, pos + 1) ELSE <<>>)
           ELSE LET tries == {<<k, MatchFrom(re, n1, i + 1, s, pos + k)>> :
                                k \in (IF it.q = "+" THEN 1 ELSE 0)..Run(s, pos, it)}
                    good == {t \in tries : t[2] # <<>>}
                IN IF good = {} THEN <<>>
                   ELSE (CHOOSE t \in good : \A u \in good : u[1] <= t[1])[2]
  IN IF r # <<>> /\ i = n1 + 1 THEN <<pos, r[2]>> ELSE r

\* re.compile(f"({pattern})({version_pattern})").match(line)
re_match(pattern, version_pattern, line) ==
  MatchFrom(pattern \o version_pattern, Len(pattern), 1, line, 0)

\* pattern.sub(f"\\g<1>{version}", line): the pattern starts with ^, so only the match
\* at offset 0 is replaced
re_sub(pattern, version_pattern, version, line) ==
  LET m == re_match(pattern, version_pattern, line)
  IN IF m = <<>> THEN line
     ELSE SubSeq(line, 1, m[1]) \o version \o Drop(line, m[2])

\* ---------------------------------------------------------------- version grammars
VERSION_REGEX ==
  Item("+", "digit", "") \o Lit(<<".">>) \o Item("+", "digit", "") \o Lit(<<".">>) \o Item("+", "digit", "")
TEST_VERSION_REGEX ==
  Item("+", "nzdigit", "") \o Lit(<<".">>) \o Item("+", "digit", "") \o Lit(<<".">>) \o Item("+", "digit", "")
REST_OF_LINE_REGEX == Item("*", "dot", "") \o EOL

\* ---------------------------------------------------------------- pattern templates
\* the result of a template function or of generate_pattern: err is TRUE when
\* error_exit was called
Ok(re) == [err |-> FALSE, pattern |-> re]
Err == [err |-> TRUE, pattern |-> <<>>]

core_dependencies ==
  {<<"A","E","P","C","o","r","e">>, <<"A","E","P","I","d","e","n","t","i","t","y">>, <<"A","E","P","L","i","f","e","c","y","c","l","e">>, <<"A","E","P","S","e","r","v","i","c","e","s">>, <<"A","E","P","S","i","g","n","a","l">>}

\* mutant: the core dependencies are not mapped to the core repository
get_ios_repo_name_prefix_only(name) ==
  IF startswith(name, <<"A","E","P">>)
  THEN <<"h","t","t","p","s",":","/","/","g","i","t","h","u","b",".","c","o","m","/","a","d","o","b","e","/","a","e","p","s","d","k","-">> \o lower(Drop(name, 3)) \o <<"-","i","o","s",".","g","i","t">>
  ELSE <<>>

\* the repository URL, or <<>> after error_exit
get_ios_repo_name(name) ==
  IF name \in core_dependencies THEN <<"h","t","t","p","s",":","/","/","g","i","t","h","u","b",".","c","o","m","/","a","d","o","b","e","/","a","e","p","s","d","k","-","c","o","r","e","-","i","o","s",".","g","i","t">>
  ELSE IF startswith(name, <<"A","E","P">>)
    THEN <<"h","t","t","p","s",":","/","/","g","i","t","h","u","b",".","c","o","m","/","a","d","o","b","e","/","a","e","p","s","d","k","-">> \o lower(Drop(name, 3)) \o <<"-","i","o","s",".","g","i","t">>
  ELSE <<>>

\* mutant: the AEP prefix is stripped and the first letter lowercased
gradle_properties_template_derived(name) ==
  Ok(BOL \o AnyStar \o Lit(<<"m","a","v","e","n">>)
     \o CompileText(re_escape(lowercase_first_char(
           IF startswith(name, <<"A","E","P">>) THEN Drop(name, 3) ELSE name)))
     \o Lit(<<"V","e","r","s","i","o","n">>) \o SpaceStar \o Lit(<<"=">>) \o SpaceStar)

gradle_properties_template(name) ==
  Ok(BOL \o AnyStar \o Lit(<<"m","a","v","e","n">>) \o CompileText(re_escape(name)) \o Lit(<<"V","e","r","s","i","o","n">>)
     \o SpaceStar \o Lit(<<"=">>) \o SpaceStar)

gradle_properties_core_template(name) ==
  Ok(BOL \o AnyStar \o CompileText(re_escape(lowercase_first_char(name)))
     \o Lit(<<"E","x","t","e","n","s","i","o","n","V","e","r","s","i","o","n">>) \o SpaceStar \o Lit(<<"=">>) \o SpaceStar)

swift_spm_template(name) ==
  LET ios_dependency_repo == get_ios_repo_name(name)
  IN IF ios_dependency_repo = <<>> THEN Err
     ELSE Ok(BOL \o AnyStar \o Lit(<<".","p","a","c","k","a","g","e","(">>) \o SpaceStar \o Lit(<<"u","r","l",":">>) \o SpaceStar
             \o Lit(<<"\"">>) \o CompileText(re_escape(ios_dependency_repo)) \o Lit(<<"\"">>)
             \o SpaceStar \o Lit(<<",">>) \o SpaceStar \o Lit(<<".","u","p","T","o","N","e","x","t","M","a","j","o","r","(">>) \o SpaceStar
             \o Lit(<<"f","r","o","m",":">>) \o SpaceStar \o Lit(<<"\"">>))

podspec_template(name) ==
  Ok(BOL \o AnyStar \o Lit(<<"s",".","d","e","p","e","n","d","e","n","c","y">>) \o SpaceStar \o QuoteClass
     \o CompileText(re_escape(name)) \o QuoteClass \o SpaceStar \o Lit(<<",">>) \o SpaceStar
     \o QuoteClass \o Lit(<<">","=">>) \o SpaceStar)

yml_uses_template(name) ==
  Ok(BOL \o AnyStar \o Lit(<<"u","s","e","s",":">>) \o SpaceStar \o CompileText(re_escape(name)) \o Lit(<<"@">>))

\* a RegexTemplate whose pattern_template is a string
Static(description, re) ==
  [description |-> description, static |-> TRUE, pattern_template |-> re, fn |-> "",
   version_pattern |-> <<>>]
\* a RegexTemplate whose pattern_template is a function
Callable(description, fn, version_pattern) ==
  [description |-> description, static |-> FALSE, pattern_template |-> <<>>, fn |-> fn,
   version_pattern |-> version_pattern]

\* self.pattern_template(dependency_name)
CallTemplate(fn, name) ==
  CASE fn = "gradle_properties_template" -> gradle_properties_template(name)
    [] fn = "gradle_properties_core_template" -> gradle_properties_core_template(name)
    [] fn = "swift_spm_template" -> swift_spm_template(name)
    [] fn = "podspec_template" -> podspec_template(name)
    [] OTHER -> yml_uses_template(name)

\* mutant: the name is not checked
generate_pattern_unchecked(template, dependency_name) ==
  IF template.static THEN Ok(template.pattern_template)
  ELSE CallTemplate(template.fn, dependency_name)

\* RegexTemplate.generate_pattern
generate_pattern(template, dependency_name) ==
  IF template.static THEN Ok(template.pattern_template)
  ELSE IF dependency_name = <<>> THEN Err
  ELSE CallTemplate(template.fn, dependency_name)

\* ---------------------------------------------------------------- pattern catalog
K_properties == <<".","p","r","o","p","e","r","t","i","e","s">>
K_properties_multi_module == <<"p","r","o","p","e","r","t","i","e","s","_","m","u","l","t","i","_","m","o","d","u","l","e">>
K_java == <<".","j","a","v","a">>
K_kt == <<".","k","t">>
K_pbxproj == <<".","p","b","x","p","r","o","j">>
K_podspec == <<".","p","o","d","s","p","e","c">>
K_swift == <<".","s","w","i","f","t">>
K_swift_version_number == <<"s","w","i","f","t","_","v","e","r","s","i","o","n","_","n","u","m","b","e","r">>
K_swift_test_version == <<"s","w","i","f","t","_","t","e","s","t","_","v","e","r","s","i","o","n">>
K_swift_spm == <<"s","w","i","f","t","_","s","p","m">>
K_yml_uses == <<"y","m","l","_","u","s","e","s">>

Assign(re) == re \o SpaceStar \o Lit(<<"=">>) \o SpaceStar
AssignQuoted(re) == Assign(re) \o Lit(<<"\"">>)

EXTENSION_REGEX_PATTERNS ==
  K_properties :> <<Static("moduleVersion", Assign(BOL \o AnyStar \o Lit(<<"m","o","d","u","l","e","V","e","r","s","i","o","n">>)))>>
  @@ K_properties_multi_module :>
       <<Callable("<library>ExtensionVersion", "gradle_properties_core_template", <<>>)>>
  @@ K_java :>
       <<Static("EXTENSION_VERSION",
                AssignQuoted(BOL \o AnyStar \o Lit(<<"S","t","r","i","n","g"," ","E","X","T","E","N","S","I","O","N","_","V","E","R","S","I","O","N">>)))>>
  @@ K_kt :> <<Static("VERSION", AssignQuoted(BOL \o AnyStar \o Lit(<<"c","o","n","s","t"," ","v","a","l"," ","V","E","R","S","I","O","N">>)))>>
  @@ K_pbxproj :>
       <<Static("MARKETING_VERSION", BOL \o AnyStar \o Lit(<<"M","A","R","K","E","T","I","N","G","_","V","E","R","S","I","O","N"," ","="," ">>))>>
  @@ K_podspec :> <<Static("s.version", AssignQuoted(BOL \o AnyStar \o Lit(<<"s",".","v","e","r","s","i","o","n">>)))>>
  @@ K_swift :>
       <<Static("EXTENSION_VERSION",
                AssignQuoted(BOL \o AnyStar \o Lit(<<"s","t","a","t","i","c"," ","l","e","t"," ","E","X","T","E","N","S","I","O","N","_","V","E","R","S","I","O","N">>)))>>
  @@ K_swift_version_number :>
       <<Static("VERSION_NUMBER",
                AssignQuoted(BOL \o AnyStar \o Lit(<<"s","t","a","t","i","c"," ","l","e","t"," ","V","E","R","S","I","O","N","_","N","U","M","B","E","R">>)))>>
  @@ K_swift_test_version :>
       <<[Static("version", BOL \o AnyStar \o Lit(<<"\"","v","e","r","s","i","o","n","\"">>) \o SpaceStar \o Lit(<<":">>)
                            \o SpaceStar \o Lit(<<"\"">>))
          EXCEPT !.version_pattern = TEST_VERSION_REGEX]>>

DEPENDENCY_REGEX_PATTERNS ==
  K_properties :>
    <<Callable("maven<dependencyName>Version", "gradle_properties_template", <<>>)>>
  @@ K_properties_multi_module :>
       <<Callable("<library>ExtensionVersion", "gradle_properties_core_template", <<>>)>>
  @@ K_swift_spm :> <<Callable(".upToNextMajor(from:)", "swift_spm_template", <<>>)>>
  @@ K_podspec :> <<Callable("s.dependency", "podspec_template", <<>>)>>
  @@ K_yml_uses :> <<Callable("uses:", "yml_uses_template", REST_OF_LINE_REGEX)>>

\* mutant: an unknown key falls back to the .properties templates
Get_fallback(table, key) == IF key \in DOMAIN table THEN table[key] ELSE table[K_properties]

\* dict.get(key, [])
Get(table, key) == IF key \in DOMAIN table THEN table[key] ELSE <<>>

\* ---------------------------------------------------------------- paths
ROOT_DIR == <<"/","r">>

LastIndex(s, c) == Max({0} \cup {i \in 1..Len(s) : s[i] = c})
FirstIndex(s, c) == CHOOSE i \in 1..Len(s) : s[i] = c /\ \A j \in 1..(i - 1) : s[j] # c

\* os.path.splitext(file_path)[1]
splitext(file_path) ==
  LET sep == LastIndex(file_path, "/")
      dot == LastIndex(file_path, ".")
  IN IF dot > sep /\ \E j \in (sep + 1)..(dot - 1) : file_path[j] # "."
     THEN Drop(file_path, dot - 1) ELSE <<>>

convert_to_absolute_path(file_path) ==
  IF ~startswith(file_path, <<"/">>) THEN ROOT_DIR \o <<"/">> \o file_path ELSE file_path

\* str.split(sep) for a one-character separator: empty pieces are kept
RECURSIVE split(_, _)
split(s, sep) ==
  IF \E i \in 1..Len(s) : s[i] = sep
  THEN LET i == FirstIndex(s, sep) IN <<SubSeq(s, 1, i - 1)>> \o split(Drop(s, i), sep)
  ELSE <<s>>

\* length of the leading run of non-whitespace characters
RECURSIVE word_len(_)
word_len(s) == IF s # <<>> /\ s[1] \notin Whitespace THEN 1 + word_len(Drop(s, 1)) ELSE 0

\* str.split(): pieces between runs of whitespace, no empty piece
RECURSIVE split_ws(_)
split_ws(s) ==
  IF s = <<>> THEN <<>>
  ELSE IF s[1] \in Whitespace THEN split_ws(Drop(s, 1))
  ELSE LET n == word_len(s) IN <<SubSeq(s, 1, n)>> \o split_ws(Drop(s, n))

\* path.split(':', 1) if ':' in path else (path, None); None is <<>>
split_type(path) ==
  IF \E i \in 1..Len(path) : path[i] = ":"
  THEN LET i == FirstIndex(path, ":") IN <<SubSeq(path, 1, i - 1), Drop(path, i)>>
  ELSE <<path, <<>>>>

\* ---------------------------------------------------------------- files
\* the offsets at which a line of the file ends: after \n, \r\n or a lone \r, and
\* at the end of the file
line_ends(b) ==
  {i \in 1..Len(b) : \/ b[i] = "\n"
                     \/ b[i] = "\r" /\ ~(i < Len(b) /\ b[i + 1] = "\n")
                     \/ i = Len(b)}

\* open(path, 'r') reads \r\n and \r as \n
universal_newline(line) ==
  LET n == Len(line)
  IN IF n >= 2 /\ line[n - 1] = "\r" /\ line[n] = "\n" THEN SubSeq(line, 1, n - 2) \o <<"\n">>
     ELSE IF n >= 1 /\ line[n] = "\r" THEN SubSeq(line, 1, n - 1) \o <<"\n">>
     ELSE line

\* file.readlines()
readlines(bytes) ==
  LET E == line_ends(bytes)
  IN [k \in 1..Cardinality(E) |->
        universal_newline(SubSeq(bytes, (IF k = 1 THEN 0 ELSE Nth(E, k - 1)) + 1, Nth(E, k)))]

\* file.writelines(new_content)
RECURSIVE writelines(_)
writelines(new_content) ==
  IF new_content = <<>> THEN <<>> ELSE new_content[1] \o writelines(Drop(new_content, 1))

\* ---------------------------------------------------------------- state
VARIABLES
  args,                         \* the parsed command line: version, paths, dependencies, update, name
  fs,                           \* file path -> bytes of the file
  scandir,                      \* directory path -> the files os.scandir yields, in its order
  pc,                           \* position in process(): "ext", "deps", "merge", "files", "exit"
  paths_to_patterns,            \* ordered dict: sequence of [path, patterns]
  dependency_paths_to_patterns, \* ordered dict built by generate_dependency_patterns
  dep_idx,                      \* index of the next dependency entry
  idx,                          \* index of the next entry of paths_to_patterns
  validation_passed,            \* "True", "False" or "None"
  exit_status,                  \* -1 while running, else the exit status
  run,                          \* number of the current invocation
  prev,                         \* the previous invocation: its mode, status, files and results
  fs0,                          \* history: fs when the current invocation started
  reads,                        \* history: paths opened for reading, in order
  writes,                       \* history: paths opened for writing, in order
  results,                      \* history: one record per process_file_version call
  contrib,                      \* history: <<dependency index, file>> pairs that received a pattern
  fatal                         \* history: error_exit was called for a configuration error

vars == <<args, fs, scandir, pc, paths_to_patterns, dependency_paths_to_patterns, dep_idx, idx,
          validation_passed, exit_status, run, prev, fs0, reads, writes, results, contrib, fatal>>

isdir(p) == p \in DOMAIN scandir
isfile(p) == p \in DOMAIN fs

\* ---------------------------------------------------------------- path expansion
RECURSIVE expand_paths(_)
expand_paths(paths) ==
  IF paths = <<>> THEN [err |-> FALSE, expanded |-> <<>>]
  ELSE LET sp == split_type(paths[1])
           absolute_path == convert_to_absolute_path(sp[1])
           pattern_type == sp[2]
           rest == expand_paths(Drop(paths, 1))
       IN IF isdir(absolute_path)
          THEN [rest EXCEPT !.expanded =
                  [i \in 1..Len(scandir[absolute_path]) |->
                     <<scandir[absolute_path][i], pattern_type>>] \o @]
          ELSE IF isfile(absolute_path)
          THEN [rest EXCEPT !.expanded = <<<<absolute_path, pattern_type>>>> \o @]
          ELSE [err |-> TRUE, expanded |-> <<>>]

\* ---------------------------------------------------------------- pattern generation
RegexPattern(description, pattern, version, version_pattern) ==
  [description |-> description, pattern |-> pattern, version |-> version,
   version_pattern |-> version_pattern]

keys(d) == [i \in 1..Len(d) |-> d[i].path]
has_key(d, key) == \E i \in 1..Len(d) : d[i].path = key
value_of(d, key) == d[CHOOSE i \in 1..Len(d) : d[i].path = key].patterns

\* d.setdefault(key, []).extend(values)
setdefault_extend(d, key, values) ==
  IF has_key(d, key)
  THEN [i \in 1..Len(d) |-> IF d[i].path = key THEN [d[i] EXCEPT !.patterns = @ \o values] ELSE d[i]]
  ELSE Append(d, [path |-> key, patterns |-> values])

\* the loop over matching_templates (lines 664-672, 740-748)
RECURSIVE add_patterns(_, _, _, _, _)
add_patterns(d, file_path, matching_templates, name, version) ==
  IF matching_templates = <<>> THEN [err |-> FALSE, d |-> d]
  ELSE LET template == matching_templates[1]
           g == generate_pattern(template, name)
       IN IF g.err THEN [err |-> TRUE, d |-> d]
          ELSE add_patterns(
                 setdefault_extend(d, file_path,
                   <<RegexPattern(template.description, g.pattern, version, template.version_pattern)>>),
                 file_path, Drop(matching_templates, 1), name, version)

\* mutant: the extension is looked up first, the pattern type only without one
lookup_key_extension_first(file_path, pattern_type) ==
  IF splitext(file_path) # <<>> THEN splitext(file_path) ELSE pattern_type

\* the catalog key of an expanded path: its pattern type, else its extension
lookup_key(file_path, pattern_type) ==
  IF pattern_type # <<>> THEN pattern_type ELSE splitext(file_path)

\* the loop over expanded_paths (lines 658-672, 734-748)
RECURSIVE for_expanded(_, _, _, _, _)
for_expanded(d, expanded_paths, table, name, version) ==
  IF expanded_paths = <<>> THEN [err |-> FALSE, d |-> d]
  ELSE LET file_path == expanded_paths[1][1]
           pattern_type == expanded_paths[1][2]
           matching_templates == Get(table, lookup_key(file_path, pattern_type))
           r == add_patterns(d, file_path, matching_templates, name, version)
       IN IF r.err THEN r
          ELSE for_expanded(r.d, Drop(expanded_paths, 1), table, name, version)

generate_extension_patterns(paths, version, name) ==
  LET e == expand_paths(paths)
  IN IF e.err THEN [err |-> TRUE, d |-> <<>>]
     ELSE for_expanded(<<>>, e.expanded, EXTENSION_REGEX_PATTERNS, name, version)

\* mutant: the @-list is ignored
dependency_paths_base_only(dependency_parts, base_paths) == base_paths

\* paths = dependency_parts[1].split(';') if len(dependency_parts) > 1 else base_paths
dependency_paths(dependency_parts, base_paths) ==
  IF Len(dependency_parts) > 1 THEN split(dependency_parts[2], ";") ELSE base_paths

\* mutant: a path that does not exist is skipped like a dependency without a version
dependency_iteration_skip_missing(d, dependency, base_paths) ==
  LET dependency_parts == split(dependency, At)
      base_parts == split_ws(dependency_parts[1])
  IN IF Len(base_parts) # 2 THEN [err |-> FALSE, d |-> d]
     ELSE LET e == expand_paths(dependency_paths(dependency_parts, base_paths))
          IN IF e.err THEN [err |-> FALSE, d |-> d]
             ELSE for_expanded(d, e.expanded, DEPENDENCY_REGEX_PATTERNS,
                               base_parts[1], base_parts[2])

\* mutant: a dependency without a version is an error
dependency_iteration_version_required(d, dependency, base_paths) ==
  LET dependency_parts == split(dependency, At)
      base_parts == split_ws(dependency_parts[1])
  IN IF Len(base_parts) # 2 THEN [err |-> TRUE, d |-> d]
     ELSE LET e == expand_paths(dependency_paths(dependency_parts, base_paths))
          IN IF e.err THEN [err |-> TRUE, d |-> d]
             ELSE for_expanded(d, e.expanded, DEPENDENCY_REGEX_PATTERNS,
                               base_parts[1], base_parts[2])

\* one iteration of the loop over dependencies_input (lines 722-748)
dependency_iteration(d, dependency, base_paths) ==
  LET dependency_parts == split(dependency, At)
      base_parts == split_ws(dependency_parts[1])
  IN IF Len(base_parts) # 2 THEN [err |-> FALSE, d |-> d]
     ELSE LET e == expand_paths(dependency_paths(dependency_parts, base_paths))
          IN IF e.err THEN [err |-> TRUE, d |-> d]
             ELSE for_expanded(d, e.expanded, DEPENDENCY_REGEX_PATTERNS,
                               base_parts[1], base_parts[2])

\* for key, value in dependency_paths_to_patterns.items(): setdefault(key, []).extend(value)
RECURSIVE merge(_, _)
merge(d, dd) ==
  IF dd = <<>> THEN d
  ELSE merge(setdefault_extend(d, dd[1].path, dd[1].patterns), Drop(dd, 1))

\* ---------------------------------------------------------------- file processing
\* mutant: a prefix comparison
version_equal_prefix(current_version, version) == startswith(current_version, version)

\* mutant: the expected version may carry a suffix the captured one lacks
version_equal_up_to_suffix(current_version, version) == startswith(version, current_version)

\* if current_version == version
version_equal(current_version, version) == current_version = version

\* mutant: each substitution is made in the line the earlier patterns rewrote
RECURSIVE apply_patterns_chained(_, _, _, _)
apply_patterns_chained(line, patterns, is_update_mode, acc) ==
  IF patterns = <<>> THEN acc
  ELSE LET regex_pattern == patterns[1]
           version_pattern == IF regex_pattern.version_pattern # <<>>
                              THEN regex_pattern.version_pattern ELSE VERSION_REGEX
           match == re_match(regex_pattern.pattern, version_pattern, line)
           acc1 == IF match = <<>> THEN acc
                   ELSE IF is_update_mode
                     THEN [acc EXCEPT !.replaced_line =
                             re_sub(regex_pattern.pattern, version_pattern,
                                    regex_pattern.version, acc.replaced_line)]
                   ELSE IF version_equal(SubSeq(line, match[1] + 1, match[2]),
                                         regex_pattern.version)
                     THEN [acc EXCEPT !.matched_patterns = @ \cup {regex_pattern}]
                   ELSE acc
       IN apply_patterns_chained(line, Drop(patterns, 1), is_update_mode, acc1)

\* the loop over patterns for one line (lines 795-817); acc is
\* [replaced_line, matched_patterns]
RECURSIVE apply_patterns(_, _, _, _)
apply_patterns(line, patterns, is_update_mode, acc) ==
  IF patterns = <<>> THEN acc
  ELSE LET regex_pattern == patterns[1]
           version_pattern == IF regex_pattern.version_pattern # <<>>
                              THEN regex_pattern.version_pattern ELSE VERSION_REGEX
           match == re_match(regex_pattern.pattern, version_pattern, line)
           acc1 == IF match = <<>> THEN acc
                   ELSE IF is_update_mode
                     THEN [acc EXCEPT !.replaced_line =
                             re_sub(regex_pattern.pattern, version_pattern,
                                    regex_pattern.version, line)]
                   ELSE IF version_equal(SubSeq(line, match[1] + 1, match[2]),
                                         regex_pattern.version)
                     THEN [acc EXCEPT !.matched_patterns = @ \cup {regex_pattern}]
                   ELSE acc
       IN apply_patterns(line, Drop(patterns, 1), is_update_mode, acc1)

\* the loop over the lines (lines 793-818); the result is [new_content, matched_patterns]
RECURSIVE scan_lines(_, _, _, _)
scan_lines(content, patterns, is_update_mode, matched_patterns) ==
  IF content = <<>> THEN [new_content |-> <<>>, matched_patterns |-> matched_patterns]
  ELSE LET a == apply_patterns(content[1], patterns, is_update_mode,
                               [replaced_line |-> content[1],
                                matched_patterns |-> matched_patterns])
           rest == scan_lines(Drop(content, 1), patterns, is_update_mode, a.matched_patterns)
       IN [rest EXCEPT !.new_content = <<a.replaced_line>> \o @]

Range(s) == {s[i] : i \in 1..Len(s)}

\* mutant: the file is written back in validate mode too
process_file_version_always_writes(bytes, patterns, is_update_mode) ==
  LET s == scan_lines(readlines(bytes), patterns, is_update_mode, {})
  IN [written |-> TRUE, bytes |-> writelines(s.new_content),
      ret |-> IF is_update_mode THEN "None"
              ELSE IF Range(patterns) \ s.matched_patterns = {} THEN "True" ELSE "False"]

\* mutant: one matched pattern is enough for the file to pass
process_file_version_any_pattern(bytes, patterns, is_update_mode) ==
  LET s == scan_lines(readlines(bytes), patterns, is_update_mode, {})
  IN IF is_update_mode
     THEN [written |-> TRUE, bytes |-> writelines(s.new_content), ret |-> "None"]
     ELSE [written |-> FALSE, bytes |-> bytes,
           ret |-> IF patterns = <<>> \/ s.matched_patterns # {} THEN "True" ELSE "False"]

\* process_file_version: the file is written (written, bytes) in update mode;
\* ret is the return value
process_file_version(bytes, patterns, is_update_mode) ==
  LET s == scan_lines(readlines(bytes), patterns, is_update_mode, {})
  IN IF is_update_mode
     THEN [written |-> TRUE, bytes |-> writelines(s.new_content), ret |-> "None"]
     ELSE [written |-> FALSE, bytes |-> bytes,
           ret |-> IF Range(patterns) \ s.matched_patterns = {} THEN "True" ELSE "False"]

\* Python's  a and b
py_and(a, b) == IF a = "True" THEN b ELSE a

\* mutant: the result of the last file only
aggregate_last(ret, passed) == ret

\* validation_passed = process_file_version(...) and validation_passed
aggregate(ret, passed) == py_and(ret, passed)

\* mutant: the loop stops at the first failure
loop_done_on_failure(i, d, passed) == i > Len(d) \/ passed = "False"

\* the loop over paths_to_patterns.items() has no more entry
loop_done(i, d, passed) == i > Len(d)

\* ---------------------------------------------------------------- inputs
MaxRuns == 2

\* version tokens the files may carry
Tokens == {<<"1",".","2",".","3">>, <<"1",".","2",".","3","0">>, <<"0","1",".","2",".","3">>, <<"1","0",".","2",".","3">>, <<"1",".","2",".","3","-","b","e","t","a">>}

\* values of --version
Versions == {<<"1",".","2",".","3">>, <<"1","0",".","2",".","3">>, <<"1",".","2",".","3","-","b","e","t","a">>}

\* values of --name (<<>> is an absent or empty name)
Names == {<<>>, <<"C","o","r","e">>}

\* the working tree: every version-bearing line carries the token tok
Tree(tok) ==
  <<"/","r","/","g",".","p","r","o","p","e","r","t","i","e","s">> :>
      (<<"m","o","d","u","l","e","V","e","r","s","i","o","n","=">> \o tok \o <<"\n","m","a","v","e","n","C","o","r","e","V","e","r","s","i","o","n"," ","="," ">> \o tok
       \o <<"\n","c","o","r","e","E","x","t","e","n","s","i","o","n","V","e","r","s","i","o","n","=">> \o tok \o <<"\n">>)
  @@ <<"/","r","/","o",".","p","r","o","p","e","r","t","i","e","s">> :>
      (<<"m","o","d","u","l","e","V","e","r","s","i","o","n","=">> \o tok \o <<";"," ","m","a","v","e","n","C","o","r","e","V","e","r","s","i","o","n","=">> \o tok \o <<"\n">>)
  @@ <<"/","r","/","C",".","j","a","v","a">> :>
      (<<"/","/"," ","c","o","n","s","t","a","n","t","s","\r","\n"," "," ","p","u","b","l","i","c"," ","s","t","a","t","i","c"," ","f","i","n","a","l"," ","S","t","r","i","n","g"," ","E","X","T","E","N","S","I","O","N","_","V","E","R","S","I","O","N"," ","="," ","\"">> \o tok \o <<"\"",";","\n">>)
  @@ <<"/","r","/","C",".","k","t">> :> (<<"c","o","n","s","t"," ","v","a","l"," ","V","E","R","S","I","O","N"," ","="," ","\"">> \o tok \o <<"\"","\n">>)
  @@ <<"/","r","/","M",".","k","t">> :>
      (<<"c","o","n","s","t"," ","v","a","l"," ","V","E","R","S","I","O","N"," ","="," ","\"">> \o tok \o <<"\"","\n","/","/"," ","n","e","x","t","\n","c","o","n","s","t"," ","v","a","l"," ","V","E","R","S","I","O","N"," ","="," ","\"","9",".","9",".","9","\"","\n">>)
  @@ <<"/","r","/","d","/","D",".","k","t">> :> (<<"i","n","t","e","r","n","a","l"," ","c","o","n","s","t"," ","v","a","l"," ","V","E","R","S","I","O","N","=","\"">> \o tok \o <<"\"">>)
  @@ <<"/","r","/","d","/","n",".","t","x","t">> :> (<<"m","o","d","u","l","e","V","e","r","s","i","o","n","=">> \o tok \o <<"\n">>)
  @@ <<"/","r","/","p",".","p","b","x","p","r","o","j">> :> (<<"\t","\t","M","A","R","K","E","T","I","N","G","_","V","E","R","S","I","O","N"," ","="," ">> \o tok \o <<";","\n">>)
  @@ <<"/","r","/","A",".","p","o","d","s","p","e","c">> :>
      (<<"s",".","v","e","r","s","i","o","n"," ","="," ","\"">> \o tok \o <<"\"","\n","s",".","d","e","p","e","n","d","e","n","c","y"," ","'","A","E","P","C","o","r","e","'",","," ","'",">","="," ">> \o tok \o <<"'","\n">>)
  @@ <<"/","r","/","B",".","p","o","d","s","p","e","c">> :>
      (<<"s",".","v","e","r","s","i","o","n"," ","="," ","\"">> \o tok \o <<"\"","\n","s",".","d","e","p","e","n","d","e","n","c","y"," ","\"","A","E","P","C","o","r","e","\"",","," ","\"",">","="," ">> \o tok \o <<"\"","\n">>)
  @@ <<"/","r","/","C",".","s","w","i","f","t">> :>
      (<<"s","t","a","t","i","c"," ","l","e","t"," ","E","X","T","E","N","S","I","O","N","_","V","E","R","S","I","O","N"," ","="," ","\"">> \o tok
       \o <<"\"","\n","s","t","a","t","i","c"," ","l","e","t"," ","V","E","R","S","I","O","N","_","N","U","M","B","E","R"," ","="," ","\"">> \o tok \o <<"\"","\n">>)
  @@ <<"/","r","/","T",".","s","w","i","f","t">> :> (<<" "," ","\"","v","e","r","s","i","o","n","\""," ",":"," ","\"">> \o tok \o <<"\"",",","\n">>)
  @@ <<"/","r","/","J",".","s","w","i","f","t">> :>
      (<<"{","\"","v","e","r","s","i","o","n","\"",":"," ","\"","3",".","0",".","0","\"",","," ","\"","s","d","k","\"",":"," ","{","\"","v","e","r","s","i","o","n","\"",":"," ","\"">> \o tok \o <<"\"","}","}","\n">>)
  @@ <<"/","r","/","P","a","c","k","a","g","e",".","s","w","i","f","t">> :>
      (<<".","p","a","c","k","a","g","e","(","u","r","l",":"," ","\"","h","t","t","p","s",":","/","/","g","i","t","h","u","b",".","c","o","m","/","a","d","o","b","e","/","a","e","p","s","d","k","-","c","o","r","e","-","i","o","s",".","g","i","t","\"",","," ",".","u","p","T","o","N","e","x","t","M","a","j","o","r","(","f","r","o","m",":"," ","\"">>
       \o tok \o <<"\"",")",")",",","\n">>
       \o <<".","p","a","c","k","a","g","e","(","u","r","l",":"," ","\"","h","t","t","p","s",":","/","/","g","i","t","h","u","b",".","c","o","m","/","a","d","o","b","e","/","a","e","p","s","d","k","-","e","d","g","e","-","i","o","s",".","g","i","t","\"",","," ",".","u","p","T","o","N","e","x","t","M","a","j","o","r","(","f","r","o","m",":"," ","\"">>
       \o tok \o <<"\"",")",")",",","\n">>)
  @@ <<"/","r","/","w",".","y","m","l">> :> (<<" "," ","-"," ","u","s","e","s",":"," ","a","/","b","@">> \o tok \o <<"\n">>)
  @@ <<"/","r","/","n",".","t","x","t">> :> (<<"m","o","d","u","l","e","V","e","r","s","i","o","n","=">> \o tok \o <<"\n">>)

\* the orders os.scandir may yield the files of the directory /r/d in
ScanOrders ==
  {<<"/","r","/","d">> :> <<<<"/","r","/","d","/","D",".","k","t">>, <<"/","r","/","d","/","n",".","t","x","t">>>>,
   <<"/","r","/","d">> :> <<<<"/","r","/","d","/","n",".","t","x","t">>, <<"/","r","/","d","/","D",".","k","t">>>>}

\* values of --paths, after the split on commas
PathLists ==
  {<<<<"g",".","p","r","o","p","e","r","t","i","e","s">>, <<"n",".","t","x","t">>>>,
   <<<<"g",".","p","r","o","p","e","r","t","i","e","s",":","p","r","o","p","e","r","t","i","e","s","_","m","u","l","t","i","_","m","o","d","u","l","e">>>>,
   <<<<"C",".","j","a","v","a">>, <<"C",".","k","t">>, <<"p",".","p","b","x","p","r","o","j">>, <<"C",".","s","w","i","f","t">>>>,
   <<<<"A",".","p","o","d","s","p","e","c">>, <<"B",".","p","o","d","s","p","e","c">>>>,
   <<<<"C",".","s","w","i","f","t",":","s","w","i","f","t","_","v","e","r","s","i","o","n","_","n","u","m","b","e","r">>, <<"C",".","s","w","i","f","t">>>>,
   <<<<"T",".","s","w","i","f","t",":","s","w","i","f","t","_","t","e","s","t","_","v","e","r","s","i","o","n">>>>,
   <<<<"J",".","s","w","i","f","t",":","s","w","i","f","t","_","t","e","s","t","_","v","e","r","s","i","o","n">>>>,
   <<<<"P","a","c","k","a","g","e",".","s","w","i","f","t",":","s","w","i","f","t","_","s","p","m">>, <<"C",".","k","t">>>>,
   <<<<"w",".","y","m","l",":","y","m","l","_","u","s","e","s">>, <<"/","r","/","C",".","k","t">>>>,
   <<<<"d">>>>,
   <<<<"C",".","k","t">>, <<"z","z",".","k","t">>>>,
   <<<<"M",".","k","t">>, <<"A",".","p","o","d","s","p","e","c",":","z","z">>>>,
   <<<<"o",".","p","r","o","p","e","r","t","i","e","s">>>>}

\* values of --dependencies, after the split on commas
DependencyLists ==
  {<<>>,
   <<<<"A","E","P","C","o","r","e"," ","1",".","2",".","3">>>>,
   <<<<"A","E","P","C","o","r","e"," ","1",".","2",".","3","@","A",".","p","o","d","s","p","e","c">>>>,
   <<<<"C","o","r","e"," ","1",".","2",".","3">>, <<"a","/","b"," ","1",".","2",".","3","@","w",".","y","m","l",":","y","m","l","_","u","s","e","s">>>>,
   <<<<"c","o","r","e"," ","1","0",".","2",".","3","@","g",".","p","r","o","p","e","r","t","i","e","s",":","p","r","o","p","e","r","t","i","e","s","_","m","u","l","t","i","_","m","o","d","u","l","e",";","P","a","c","k","a","g","e",".","s","w","i","f","t">>>>,
   <<<<"A","E","P","S","e","r","v","i","c","e","s","@","z","z",".","p","o","d","s","p","e","c">>, <<"A","E","P","E","d","g","e"," ","1",".","2",".","3">>, <<"A","E","P","S","e","r","v","i","c","e","s"," ","1",".","2",".","3","@","P","a","c","k","a","g","e",".","s","w","i","f","t",":","s","w","i","f","t","_","s","p","m">>>>,
   <<<<"A","E","P","C","o","r","e"," ","1",".","2",".","3","@","A",".","p","o","d","s","p","e","c",";","z","z",".","p","o","d","s","p","e","c">>>>}

\* the order os.scandir yields when no path of the run names a directory
ListedOrder == <<"/","r","/","d">> :> <<<<"/","r","/","d","/","D",".","k","t">>, <<"/","r","/","d","/","n",".","t","x","t">>>>

\* some path of the command line names a directory
NamesDirectory(a) ==
  \E i \in 1..Len(a.paths) :
     convert_to_absolute_path(split_type(a.paths[i])[1]) \in DOMAIN ListedOrder

\* some path of the command line selects an own-version template that takes --name
TakesName(a) ==
  \E i \in 1..Len(a.paths) :
     LET templates == Get(EXTENSION_REGEX_PATTERNS, split_type(a.paths[i])[2])
     IN \E k \in 1..Len(templates) : ~templates[k].static

\* every command line over every tree; the directory order is varied for the runs
\* that expand a directory and --name for the runs that select a template taking it
Init ==
  /\ args \in [version : Versions, paths : PathLists, dependencies : DependencyLists,
               update : BOOLEAN, name : Names]
  /\ \E tok \in Tokens : fs = Tree(tok)
  /\ scandir \in ScanOrders
  /\ NamesDirectory(args) \/ scandir = ListedOrder
  /\ TakesName(args) \/ args.name = <<>>
  /\ pc = "ext"
  /\ paths_to_patterns = <<>>
  /\ dependency_paths_to_patterns = <<>>
  /\ dep_idx = 1
  /\ idx = 1
  /\ validation_passed = "True"
  /\ exit_status = -1
  /\ run = 1
  /\ prev = [update |-> FALSE, exit_status |-> -1, fs |-> fs, results |-> <<>>]
  /\ fs0 = fs
  /\ reads = <<>>
  /\ writes = <<>>
  /\ results = <<>>
  /\ contrib = {}
  /\ fatal = FALSE

\* ---------------------------------------------------------------- process()
\* error_exit: sys.exit(1)
ErrorExit ==
  /\ pc' = "exit"
  /\ exit_status' = 1

\* paths_to_patterns = generate_extension_patterns(paths, version, name)
GenerateExtensionPatterns ==
  /\ pc = "ext"
  /\ \E r \in {generate_extension_patterns(args.paths, args.version, args.name)} :
        IF r.err
        THEN ErrorExit /\ fatal' = TRUE /\ UNCHANGED paths_to_patterns
        ELSE /\ paths_to_patterns' = r.d
             /\ pc' = "deps"
             /\ UNCHANGED <<exit_status, fatal>>
  /\ UNCHANGED <<args, fs, scandir, dependency_paths_to_patterns, dep_idx, idx,
                 validation_passed, run, prev, fs0, reads, writes, results, contrib>>

\* the files whose pattern list is longer in d2 than in d1
Grown(d1, d2) ==
  {d2[i].path : i \in {j \in 1..Len(d2) :
      ~has_key(d1, d2[j].path) \/ Len(value_of(d1, d2[j].path)) < Len(d2[j].patterns)}}

\* generate_dependency_patterns: one dependency entry
GenerateDependencyPatterns ==
  /\ pc = "deps"
  /\ dep_idx <= Len(args.dependencies)
  /\ \E r \in {dependency_iteration(dependency_paths_to_patterns,
                                    args.dependencies[dep_idx], args.paths)} :
        IF r.err
        THEN ErrorExit /\ fatal' = TRUE
             /\ UNCHANGED <<dependency_paths_to_patterns, dep_idx, contrib>>
        ELSE /\ dependency_paths_to_patterns' = r.d
             /\ dep_idx' = dep_idx + 1
             /\ contrib' = contrib \cup
                  {<<dep_idx, f>> : f \in Grown(dependency_paths_to_patterns, r.d)}
             /\ UNCHANGED <<pc, exit_status, fatal>>
  /\ UNCHANGED <<args, fs, scandir, paths_to_patterns, idx, validation_passed, run, prev,
                 fs0, reads, writes, results>>

\* generate_dependency_patterns returns; the two dictionaries are merged
Merge ==
  /\ pc = "deps"
  /\ dep_idx > Len(args.dependencies)
  /\ paths_to_patterns' = merge(paths_to_patterns, dependency_paths_to_patterns)
  /\ pc' = "files"
  /\ UNCHANGED <<args, fs, scandir, dependency_paths_to_patterns, dep_idx, idx,
                 validation_passed, exit_status, run, prev, fs0, reads, writes, results,
                 contrib, fatal>>

\* history only: for every line and pattern of a file, the match of the pattern on the
\* line: <<>> or <<end of the anchor, end of the version token>>
MatchTable(bytes, patterns) ==
  LET content == readlines(bytes)
  IN [l \in 1..Len(content) |->
        [k \in 1..Len(patterns) |->
           re_match(patterns[k].pattern,
                    IF patterns[k].version_pattern # <<>> THEN patterns[k].version_pattern
                    ELSE VERSION_REGEX, content[l])]]

\* every pattern matches at least one line
AllMatch(t, n) == \A k \in 1..n : \E l \in 1..Len(t) : t[l][k] # <<>>

\* some line is matched by two patterns
Overlap(t, n) ==
  \E l \in 1..Len(t) : \E j, k \in 1..n : j < k /\ t[l][j] # <<>> /\ t[l][k] # <<>>

\* one iteration of the loop over paths_to_patterns.items()
ProcessFile ==
  /\ pc = "files"
  /\ ~loop_done(idx, paths_to_patterns, validation_passed)
  /\ \E path \in {paths_to_patterns[idx].path}, patterns \in {paths_to_patterns[idx].patterns} :
     \E r \in {process_file_version(fs[path], patterns, args.update)},
        t \in {MatchTable(fs[path], patterns)} :
        /\ reads' = Append(reads, path)
        /\ fs' = IF r.written THEN [fs EXCEPT ![path] = r.bytes] ELSE fs
        /\ writes' = IF r.written THEN Append(writes, path) ELSE writes
        /\ validation_passed' = aggregate(r.ret, validation_passed)
        /\ results' = Append(results, [path |-> path, ret |-> r.ret, patterns |-> patterns,
                                       table |-> t,
                                       all_match |-> AllMatch(t, Len(patterns)),
                                       overlap |-> Overlap(t, Len(patterns))])
  /\ idx' = idx + 1
  /\ UNCHANGED <<args, scandir, pc, paths_to_patterns, dependency_paths_to_patterns, dep_idx,
                 exit_status, run, prev, fs0, contrib, fatal>>

\* the end of process() and of main()
Finish ==
  /\ pc = "files"
  /\ loop_done(idx, paths_to_patterns, validation_passed)
  /\ pc' = "exit"
  /\ exit_status' = IF ~args.update /\ validation_passed # "True" THEN 1 ELSE 0
  /\ UNCHANGED <<args, fs, scandir, paths_to_patterns, dependency_paths_to_patterns, dep_idx,
                 idx, validation_passed, run, prev, fs0, reads, writes, results, contrib,
                 fatal>>

\* the tool is invoked again on the same tree with the same arguments, in either mode
NextRun ==
  /\ pc = "exit"
  /\ run < MaxRuns
  /\ run' = run + 1
  /\ prev' = [update |-> args.update, exit_status |-> exit_status, fs |-> fs,
              results |-> results]
  /\ \E u \in BOOLEAN : args' = [args EXCEPT !.update = u]
  /\ pc' = "ext"
  /\ paths_to_patterns' = <<>>
  /\ dependency_paths_to_patterns' = <<>>
  /\ dep_idx' = 1
  /\ idx' = 1
  /\ validation_passed' = "True"
  /\ exit_status' = -1
  /\ fs0' = fs
  /\ reads' = <<>>
  /\ writes' = <<>>
  /\ results' = <<>>
  /\ contrib' = {}
  /\ fatal' = FALSE
  /\ UNCHANGED <<fs, scandir>>

Next ==
  \/ GenerateExtensionPatterns
  \/ GenerateDependencyPatterns
  \/ Merge
  \/ ProcessFile
  \/ Finish
  \/ NextRun

Spec == Init /\ [][Next]_vars

TypeOK ==
  /\ pc \in {"ext", "deps", "files", "exit"}
  /\ exit_status \in {-1, 0, 1}
  /\ validation_passed \in {"True", "False", "None"}

\* ---------------------------------------------------------------- properties
Done == pc = "exit"

\* MAJOR.MINOR.PATCH, each component one or more digits
IsVersion(v) ==
  LET parts == split(v, ".")
  IN Len(parts) = 3 /\ \A i \in 1..3 : parts[i] # <<>> /\ \A j \in 1..Len(parts[i]) : parts[i][j] \in Digits

\* C1: when update mode was run twice in a row with the same arguments the files
\* after the second run are byte-identical to the files after the first run.
C1_UpdateIdempotent ==
  (run >= 2 /\ Done /\ prev.update /\ args.update /\ prev.exit_status = 0 /\ exit_status = 0)
    => fs = prev.fs

\* C2: after an update run in which every pattern of every file matched a line (no line
\* matched by two patterns) and every version is MAJOR.MINOR.PATCH, a validate run with
\* the same arguments succeeds.
C2_UpdateThenValidate ==
  (/\ run >= 2 /\ Done /\ prev.update /\ prev.exit_status = 0 /\ ~args.update /\ ~fatal
   /\ \A i \in 1..Len(prev.results) :
        /\ prev.results[i].all_match
        /\ ~prev.results[i].overlap
        /\ \A k \in 1..Len(prev.results[i].patterns) :
             IsVersion(prev.results[i].patterns[k].version))
    => exit_status = 0

\* an occurrence of the version v in the file that no digit precedes or follows
Occurs(bytes, v) ==
  \E i \in 1..(Len(bytes) - Len(v) + 1) :
     /\ SubSeq(bytes, i, i + Len(v) - 1) = v
     /\ (i = 1 \/ bytes[i - 1] \notin Digits)
     /\ (i + Len(v) > Len(bytes) \/ bytes[i + Len(v)] \notin Digits)

\* the file path carries the token tok on its version lines
Carries(files, path, tok) == files[path] = Tree(tok)[path]

\* C3: in validate mode with the default grammar a pattern counts as matched only when
\* the file holds exactly the expected version: a file that passes holds the expected
\* version of each of its default-grammar patterns with no digit around it, and a file
\* that carries only 1.2.30 or 01.2.3 fails against the expected version 1.2.3.
C3_ExactMatch ==
  ~args.update =>
    \A i \in 1..Len(results) : \A k \in 1..Len(results[i].patterns) :
       LET r == results[i]
           p == r.patterns[k]
       IN p.version_pattern = <<>> =>
            /\ r.ret = "True" => Occurs(fs[r.path], p.version)
            /\ (p.version = <<"1",".","2",".","3">> /\ \E tok \in {<<"1",".","2",".","3","0">>, <<"0","1",".","2",".","3">>} :
                   Carries(fs, r.path, tok)) => r.ret = "False"

C3_Witness ==
  /\ Done /\ ~args.update
  /\ \E i \in 1..Len(results) :
       /\ results[i].ret = "False"
       /\ Carries(fs, results[i].path, <<"1",".","2",".","3","0">>)
       /\ \E k \in 1..Len(results[i].patterns) :
            /\ results[i].patterns[k].version = <<"1",".","2",".","3">>
            /\ results[i].patterns[k].version_pattern = <<>>

KnownKeys == DOMAIN EXTENSION_REGEX_PATTERNS \cup DOMAIN DEPENDENCY_REGEX_PATTERNS

\* the @-list of a dependency entry, <<>> when it has none
HasAtList(dependency) == \E i \in 1..Len(dependency) : dependency[i] = At
AtList(dependency) == IF HasAtList(dependency) THEN split(split(dependency, At)[2], ";") ELSE <<>>
HasVersion(dependency) == Len(split_ws(split(dependency, At)[1])) = 2

\* the path and the pattern type a path entry names
SpecFile(spec) == convert_to_absolute_path(split_type(spec)[1])
SpecType(spec) == split_type(spec)[2]

\* every path entry of the run: the base path list and the @-lists of the dependencies
RunSpecs ==
  Range(args.paths) \cup UNION {Range(AtList(args.dependencies[k])) : k \in 1..Len(args.dependencies)}

\* the path entry spec expands to the file f
ExpandsTo(spec, f) ==
  \/ SpecFile(spec) = f
  \/ isdir(SpecFile(spec)) /\ f \in Range(scandir[SpecFile(spec)])

\* f has an extension absent from both tables and no path entry gives it a pattern type
UnknownType(f) ==
  /\ splitext(f) \notin KnownKeys
  /\ \A spec \in RunSpecs : ExpandsTo(spec, f) => SpecType(spec) = <<>>

\* C5: a file whose extension is in neither table and that has no pattern type gets no
\* pattern, is never read (so it cannot fail a validate run) and is never written: its
\* content stays what it was when the run started.
C5_UnknownTypeNoop ==
  \A f \in DOMAIN fs :
     \/ /\ ~has_key(paths_to_patterns, f)
        /\ ~has_key(dependency_paths_to_patterns, f)
        /\ f \notin Range(reads)
        /\ f \notin Range(writes)
        /\ fs[f] = fs0[f]
     \/ ~UnknownType(f)

C5_Witness ==
  /\ Done /\ args.update /\ exit_status = 0 /\ writes # <<>>
  /\ \E spec \in Range(args.paths) : ExpandsTo(spec, <<"/","r","/","n",".","t","x","t">>)
  /\ \E k \in 1..Len(args.dependencies) :
       HasVersion(args.dependencies[k]) /\ ~HasAtList(args.dependencies[k])
  /\ UnknownType(<<"/","r","/","n",".","t","x","t">>)

\* a name-parameterised own-version template is selected and no name is given
NameRequired ==
  /\ args.name = <<>>
  /\ \E spec \in Range(args.paths) :
       /\ SpecType(spec) = K_properties_multi_module
       /\ \E f \in DOMAIN fs : ExpandsTo(spec, f)

\* C6: when a selected template needs a name and none is given, the run ends with exit
\* status 1 before any file is read or written, in update mode and in validate mode.
C6_NameRequired ==
  NameRequired =>
    /\ pc \in {"ext", "exit"}
    /\ Done => exit_status = 1
    /\ reads = <<>> /\ writes = <<>> /\ fs = fs0

C6_Witness == Done /\ NameRequired /\ args.update /\ exit_status = 1 /\ fatal

\* the files of an expansion that have a template in the dependency table
DependencyFiles(expanded) ==
  {expanded[i][1] : i \in {j \in 1..Len(expanded) :
      Get(DEPENDENCY_REGEX_PATTERNS, lookup_key(expanded[j][1], expanded[j][2])) # <<>>}}

\* the files dependency entry k received a pattern for
Contributed(k) == {f \in DOMAIN fs : <<k, f>> \in contrib}

\* C7: a dependency entry gives patterns exactly to the files expanded from its @-list
\* when it has one, and from the base path list otherwise; no other file of the base
\* path set gets a pattern from it.
C7_DependencyScoping ==
  \A k \in 1..Len(args.dependencies) :
     k < dep_idx =>
       Contributed(k) =
         IF ~HasVersion(args.dependencies[k]) THEN {}
         ELSE IF HasAtList(args.dependencies[k])
           THEN DependencyFiles(expand_paths(AtList(args.dependencies[k])).expanded)
         ELSE DependencyFiles(expand_paths(args.paths).expanded)

C7_Witness ==
  /\ pc = "files"
  /\ \E k \in 1..Len(args.dependencies) :
       /\ HasAtList(args.dependencies[k])
       /\ Contributed(k) # {}
       /\ \E g \in DependencyFiles(expand_paths(args.paths).expanded) : g \notin Contributed(k)

\* C8: a validate run writes no file: every file keeps the content it had when the run
\* started, whether the validation passes or fails.
C8_ValidateNoWrite == ~args.update => (writes = <<>> /\ fs = fs0)

C8_Witness ==
  /\ Done /\ ~args.update /\ ~fatal /\ exit_status = 1
  /\ \E i, j \in 1..Len(results) : results[i].ret = "True" /\ results[j].ret = "False"
  /\ \E f \in Range(reads) : \E i \in 1..Len(fs[f]) : fs[f][i] = "\r"

\* C9: without a fatal error an update run ends with exit status 0, and a validate run
\* ends with exit status 0 when every processed file validated and with 1 otherwise.
C9_ExitStatus ==
  (Done /\ ~fatal) =>
    IF args.update THEN exit_status = 0
    ELSE exit_status = (IF \A i \in 1..Len(results) : results[i].ret = "True" THEN 0 ELSE 1)

C9_Witness ==
  /\ Done /\ ~args.update /\ ~fatal /\ exit_status = 1
  /\ \E i, j \in 1..Len(results) : i < j /\ results[i].ret = "False" /\ results[j].ret = "True"

\* the sequence s without the later copies of its elements
Dedup(s) ==
  LET First(i) == \A j \in 1..(i - 1) : s[j] # s[i]
      keep == SelectSeq([i \in 1..Len(s) |-> i], First)
  IN [k \in 1..Len(keep) |-> s[keep[k]]]

\* the expansions of the path lists of the dependency entries k.. that have a version
RECURSIVE DependencyExpansion(_)
DependencyExpansion(k) ==
  IF k > Len(args.dependencies) THEN <<>>
  ELSE (IF ~HasVersion(args.dependencies[k]) THEN <<>>
        ELSE IF HasAtList(args.dependencies[k])
          THEN expand_paths(AtList(args.dependencies[k])).expanded
        ELSE expand_paths(args.paths).expanded) \o DependencyExpansion(k + 1)

FilesOf(expanded) == [i \in 1..Len(expanded) |-> expanded[i][1]]
HasPattern(f) == has_key(paths_to_patterns, f)

\* the files in the order path expansion resolved them
ResolutionOrder ==
  SelectSeq(Dedup(FilesOf(expand_paths(args.paths).expanded \o DependencyExpansion(1))),
            HasPattern)

\* the files that have an own-version pattern, in expansion order, then the files that
\* have only dependency patterns, in the order the dependency entries reach them
PatternOrder ==
  LET Own(e) == Get(EXTENSION_REGEX_PATTERNS, lookup_key(e[1], e[2])) # <<>>
      Dep(e) == Get(DEPENDENCY_REGEX_PATTERNS, lookup_key(e[1], e[2])) # <<>>
  IN Dedup(FilesOf(SelectSeq(expand_paths(args.paths).expanded, Own)
                   \o SelectSeq(DependencyExpansion(1), Dep)))

\* C10 as stated: a validate run validates every file that has a pattern exactly once in
\* resolution order, and exits with status 1 only after the last one.
C10_ResolutionOrder ==
  (Done /\ ~args.update /\ ~fatal) => reads = ResolutionOrder

\* C10 amended: a validate run validates every path that has a pattern exactly once,
\* the files with an own-version pattern first, and a failing file does not stop it:
\* the run exits (with status 1 after a failure) only after the last file.
C10_ValidateEveryFile ==
  (~args.update /\ ~fatal) =>
    /\ pc = "files" => reads = SubSeq(PatternOrder, 1, idx - 1)
    /\ Done => reads = PatternOrder

C10_Witness ==
  /\ Done /\ ~args.update /\ ~fatal /\ exit_status = 1
  /\ Len(results) >= 2 /\ results[1].ret = "False"
  /\ reads # ResolutionOrder

\* a path entry that names neither an existing file nor an existing directory
Missing(spec) == ~isfile(SpecFile(spec)) /\ ~isdir(SpecFile(spec))

\* the path entries the run expands: the base path list and the @-lists of the
\* dependency entries that carry a version
ExpandedSpecs ==
  Range(args.paths) \cup
  UNION {Range(AtList(args.dependencies[k])) :
           k \in {j \in 1..Len(args.dependencies) : HasVersion(args.dependencies[j])}}

MissingPath == \E spec \in ExpandedSpecs : Missing(spec)

\* C11: when a base path, or a path of the @-list of a dependency that carries a version,
\* names neither a file nor a directory, the run never reaches the loop over the files:
\* no file is read or written, and it ends with exit status 1 through error_exit, in
\* update mode and in validate mode.
C11_MissingPathAborts ==
  \/ /\ pc \in {"ext", "deps", "exit"}
     /\ reads = <<>> /\ writes = <<>> /\ fs = fs0
     /\ Done => (exit_status = 1 /\ fatal)
  \/ ~MissingPath

C11_Witness ==
  /\ Done /\ args.update /\ exit_status = 1 /\ fatal
  /\ paths_to_patterns # <<>>
  /\ \A spec \in Range(args.paths) : ~Missing(spec)
  /\ \E k \in 1..Len(args.dependencies) :
       /\ HasVersion(args.dependencies[k])
       /\ \E spec \in Range(AtList(args.dependencies[k])) : Missing(spec)
       /\ \E spec \in Range(AtList(args.dependencies[k])) : ~Missing(spec)

\* the step of generate_dependency_patterns on an entry without a version token: the
\* loop moves to the next entry, no dictionary changes, and error_exit is not called
SkipStep ==
  (pc = "deps" /\ dep_idx <= Len(args.dependencies)
   /\ ~HasVersion(args.dependencies[dep_idx])) =>
    /\ pc' = "deps"
    /\ dep_idx' = dep_idx + 1
    /\ dependency_paths_to_patterns' = dependency_paths_to_patterns
    /\ paths_to_patterns' = paths_to_patterns
    /\ contrib' = contrib
    /\ exit_status' = exit_status
    /\ ~fatal'

\* the files the dependency entry k gives patterns to when all its paths exist
Scope(k) ==
  IF HasAtList(args.dependencies[k])
  THEN DependencyFiles(expand_paths(AtList(args.dependencies[k])).expanded)
  ELSE DependencyFiles(expand_paths(args.paths).expanded)

\* a dependency entry of the run has no version token
HasVersionless == \E k \in 1..Len(args.dependencies) : ~HasVersion(args.dependencies[k])

\* C12: a dependency entry without a version token is skipped: the step does not abort
\* the run (even when a path of its @-list does not exist: the list is not expanded)
\* and gives no file a pattern; the entries that carry a version still give
\* their patterns to their files; and a run with such an entry that meets no error ends
\* with the exit status its files alone decide.
C12_VersionlessSkipped ==
  /\ [][SkipStep]_vars
  /\ [](HasVersionless =>
          /\ \A k \in 1..Len(args.dependencies) :
               k < dep_idx =>
                 Contributed(k) = IF HasVersion(args.dependencies[k]) THEN Scope(k) ELSE {}
          /\ (Done /\ ~fatal) =>
               exit_status =
                 IF args.update \/ \A i \in 1..Len(results) : results[i].ret = "True"
                 THEN 0 ELSE 1)

C12_Witness ==
  /\ Done /\ args.update /\ exit_status = 0 /\ ~fatal /\ writes # <<>>
  /\ \E j, k \in 1..Len(args.dependencies) :
       /\ j < k
       /\ ~HasVersion(args.dependencies[j])
       /\ \E spec \in Range(AtList(args.dependencies[j])) : Missing(spec)
       /\ Contributed(k) # {}

\* the one catalog key of an expanded entry <<file, pattern type>>: the pattern type
\* when the path carries one, the extension of the file otherwise
OverrideOrExtension(e) == IF e[2] # <<>> THEN e[2] ELSE splitext(e[1])

\* the descriptions of the templates the table holds for the entries of the expansion
\* that name the file f, in order
RECURSIVE Descriptions(_, _, _)
Descriptions(expanded, table, f) ==
  IF expanded = <<>> THEN <<>>
  ELSE (IF expanded[1][1] = f
        THEN LET templates == Get(table, OverrideOrExtension(expanded[1]))
             IN [i \in 1..Len(templates) |-> templates[i].description]
        ELSE <<>>) \o Descriptions(Drop(expanded, 1), table, f)

\* the descriptions of the patterns the dictionary d holds for the file f
PatternDescriptions(d, f) ==
  IF has_key(d, f) THEN [i \in 1..Len(value_of(d, f)) |-> value_of(d, f)[i].description]
  ELSE <<>>

\* C13: the patterns of a file are those of the templates found under one key per path
\* entry, the pattern type when the entry carries one and the extension otherwise, in
\* the own-version table and in the dependency table alike; a file whose pattern type is
\* absent from a table therefore gets no pattern from it, whatever its extension.
C13_OverrideOnly ==
  /\ (~fatal /\ pc = "deps") =>
       \A own \in {expand_paths(args.paths).expanded} : \A f \in DOMAIN fs :
          PatternDescriptions(paths_to_patterns, f)
            = Descriptions(own, EXTENSION_REGEX_PATTERNS, f)
  /\ (~fatal /\ pc \in {"files", "exit"}) =>
       \A own \in {expand_paths(args.paths).expanded}, dep \in {DependencyExpansion(1)} :
          \A f \in DOMAIN fs :
             \A fromown \in {Descriptions(own, EXTENSION_REGEX_PATTERNS, f)},
                fromdep \in {Descriptions(dep, DEPENDENCY_REGEX_PATTERNS, f)} :
                /\ PatternDescriptions(dependency_paths_to_patterns, f) = fromdep
                /\ PatternDescriptions(paths_to_patterns, f) = fromown \o fromdep

C13_Witness ==
  /\ pc = "files" /\ ~fatal /\ paths_to_patterns # <<>>
  /\ \E k \in 1..Len(args.dependencies) :
       HasVersion(args.dependencies[k]) /\ ~HasAtList(args.dependencies[k])
  /\ \E e \in Range(expand_paths(args.paths).expanded) :
       /\ e[2] # <<>> /\ e[2] \notin KnownKeys
       /\ splitext(e[1]) \in DOMAIN EXTENSION_REGEX_PATTERNS
       /\ splitext(e[1]) \in DOMAIN DEPENDENCY_REGEX_PATTERNS
       /\ ~has_key(paths_to_patterns, e[1])

\* the lines of a file as its bytes hold them, each with its own line terminator
RawLines(bytes) ==
  LET E == line_ends(bytes)
  IN [k \in 1..Cardinality(E) |->
        SubSeq(bytes, (IF k = 1 THEN 0 ELSE Nth(E, k - 1)) + 1, Nth(E, k))]

\* the patterns that match the line l in the match table t of a file
Matching(t, l) == {k \in 1..Len(t[l]) : t[l][k] # <<>>}

\* the text matched by the anchor, the expected version, the text after the version token
Rewritten(line, m, version) == SubSeq(line, 1, m[1]) \o version \o Drop(line, m[2])

\* C14: an update run writes every processed file with as many lines as it read, in the
\* same order: a line no pattern matches unchanged, and a line exactly one pattern
\* matches as the text the anchor matched, the expected version of that pattern, and
\* the original text after the matched version token.
C14_UpdateFrame ==
  args.update =>
    \A i \in 1..Len(results) :
       \A before \in {RawLines(fs0[results[i].path])},
          after \in {RawLines(fs[results[i].path])} :
          /\ Len(after) = Len(before)
          /\ \A l \in 1..Len(before) :
                /\ Matching(results[i].table, l) = {} => after[l] = before[l]
                /\ \A k \in Matching(results[i].table, l) :
                      Matching(results[i].table, l) = {k} =>
                        after[l] = Rewritten(before[l], results[i].table[l][k],
                                             results[i].patterns[k].version)

\* the version token the pattern k captured on the line l
Captured(content, t, l, k) == SubSeq(content[l], t[l][k][1] + 1, t[l][k][2])

\* some line of the file matches the pattern k of the result r with a captured version
\* equal to the expected version of the pattern
Satisfied(r, content, k) ==
  \E l \in 1..Len(content) :
     r.table[l][k] # <<>> /\ Captured(content, r.table, l, k) = r.patterns[k].version

\* C15: in validate mode a file passes exactly when every pattern of its list has a line
\* that matches it with the expected version, whatever the other lines that match the
\* same anchor carry; and a file passes against the empty pattern list.
C15_ValidateIff ==
  ~args.update =>
    \A i \in 1..Len(results) :
       \A content \in {readlines(fs[results[i].path])} :
          /\ results[i].ret = "True" <=>
               \A k \in 1..Len(results[i].patterns) : Satisfied(results[i], content, k)
          /\ process_file_version(fs[results[i].path], <<>>, FALSE).ret = "True"

C15_Witness ==
  /\ Done /\ ~args.update
  /\ \E i \in 1..Len(results) :
       /\ results[i].ret = "True"
       /\ \E k \in 1..Len(results[i].patterns) : \E l1, l2 \in 1..Len(results[i].table) :
            /\ results[i].table[l1][k] # <<>> /\ results[i].table[l2][k] # <<>>
            /\ Captured(readlines(fs[results[i].path]), results[i].table, l1, k)
                 = results[i].patterns[k].version
            /\ Captured(readlines(fs[results[i].path]), results[i].table, l2, k)
                 # results[i].patterns[k].version

\* the patterns the dependency entries gave the file, <<>> when they gave none
DependencyPatterns(path) ==
  IF has_key(dependency_paths_to_patterns, path)
  THEN value_of(dependency_paths_to_patterns, path) ELSE <<>>

\* C16: in an update run the pattern list of a file is its own-version patterns followed
\* by its dependency patterns, and a line that several patterns match is written (line
\* terminators set aside) as the substitution of the last of them in the original line:
\* no text of the written line comes from the substitution of an earlier pattern.
C16_LastPatternWins ==
  args.update =>
    \A i \in 1..Len(results) :
       \A before \in {readlines(fs0[results[i].path])},
          after \in {readlines(fs[results[i].path])},
          dep \in {DependencyPatterns(results[i].path)} :
          /\ Len(dep) <= Len(results[i].patterns)
          /\ SubSeq(results[i].patterns, Len(results[i].patterns) - Len(dep) + 1,
                    Len(results[i].patterns)) = dep
          /\ \A k \in 1..(Len(results[i].patterns) - Len(dep)) :
                results[i].patterns[k].version = args.version
          /\ Len(after) = Len(before)
          /\ \A l \in 1..Len(before) : \A last \in Matching(results[i].table, l) :
                (/\ Cardinality(Matching(results[i].table, l)) >= 2
                 /\ \A k \in Matching(results[i].table, l) : k <= last) =>
                   after[l] = Rewritten(before[l], results[i].table[l][last],
                                        results[i].patterns[last].version)

C16_Witness ==
  /\ Done /\ args.update /\ exit_status = 0
  /\ \E i \in 1..Len(results) : \E l \in 1..Len(results[i].table) :
       \E j, k \in Matching(results[i].table, l) :
          /\ j < k
          /\ results[i].table[l][j] # results[i].table[l][k]
          /\ results[i].patterns[j].version # results[i].patterns[k].version
          /\ results[i].patterns[j].version = args.version
          /\ results[i].patterns[k] \in Range(DependencyPatterns(results[i].path))
          /\ readlines(fs[results[i].path])[l]
               # Rewritten(readlines(fs0[results[i].path])[l], results[i].table[l][j],
                           results[i].patterns[j].version)

\* the name and the version of the dependency entry k, and the entries it expands
DepName(k) == split_ws(split(args.dependencies[k], At)[1])[1]
DepVersion(k) == split_ws(split(args.dependencies[k], At)[1])[2]
DepExpansion(k) ==
  IF HasAtList(args.dependencies[k]) THEN expand_paths(AtList(args.dependencies[k])).expanded
  ELSE expand_paths(args.paths).expanded

\* the dependency entries that carry a version and have been resolved
Resolved == {k \in 1..Len(args.dependencies) : k < dep_idx /\ HasVersion(args.dependencies[k])}

\* the name the claim derives from a dependency name
StripPrefix(name) == IF startswith(name, <<"A","E","P">>) THEN Drop(name, 3) ELSE name
DerivedName(name) == lowercase_first_char(StripPrefix(name))

\* the pattern p, followed by a version, matches the Gradle property maven<n>Version
AnchorsProperty(p, n) ==
  re_match(p.pattern, VERSION_REGEX, <<"m","a","v","e","n">> \o n \o <<"V","e","r","s","i","o","n","=","0",".","0",".","0">>) # <<>>

\* the Gradle property patterns the dependency entry k gave the file f
GradlePatterns(k, f) ==
  {p \in Range(DependencyPatterns(f)) :
     p.description = "maven<dependencyName>Version" /\ p.version = DepVersion(k)}

\* C17 as stated: the Gradle property anchor of a dependency is built from the derived
\* name, the dependency name without its AEP prefix and with its first letter lowercased.
C17_DerivedName ==
  \A k \in Resolved : \A e \in Range(DepExpansion(k)) :
     OverrideOrExtension(e) = K_properties =>
       \E p \in GradlePatterns(k, e[1]) : AnchorsProperty(p, DerivedName(DepName(k)))

\* C17 amended: the Gradle property anchor of a dependency is built from the dependency
\* name as given: it matches maven<name>Version, and not the property of the name
\* without the prefix or with a lowercased first letter when that differs.
C17_NameAsGiven ==
  \A k \in Resolved : \A e \in Range(DepExpansion(k)) :
     OverrideOrExtension(e) = K_properties =>
       \E p \in GradlePatterns(k, e[1]) :
          /\ AnchorsProperty(p, DepName(k))
          /\ \A n \in {StripPrefix(DepName(k)), lowercase_first_char(DepName(k)),
                       DerivedName(DepName(k))} :
                n # DepName(k) => ~AnchorsProperty(p, n)

C17_Witness ==
  /\ Done /\ args.update /\ ~fatal
  /\ \E k \in Resolved :
       /\ DepName(k) = <<"A","E","P","C","o","r","e">>
       /\ <<"/","r","/","g",".","p","r","o","p","e","r","t","i","e","s">> \in Contributed(k)
       /\ \E p \in GradlePatterns(k, <<"/","r","/","g",".","p","r","o","p","e","r","t","i","e","s">>) :
            AnchorsProperty(p, <<"A","E","P","C","o","r","e">>) /\ ~AnchorsProperty(p, <<"C","o","r","e">>)
       /\ fs[<<"/","r","/","g",".","p","r","o","p","e","r","t","i","e","s">>] # fs0[<<"/","r","/","g",".","p","r","o","p","e","r","t","i","e","s">>]
       /\ readlines(fs[<<"/","r","/","g",".","p","r","o","p","e","r","t","i","e","s">>])[2] = <<"m","a","v","e","n","C","o","r","e","V","e","r","s","i","o","n"," ","="," ","1",".","2",".","3","0","\n">>

\* the repository URL the claim gives a dependency name that is in the core set or
\* starts with the prefix
CoreRepo == <<"h","t","t","p","s",":","/","/","g","i","t","h","u","b",".","c","o","m","/","a","d","o","b","e","/","a","e","p","s","d","k","-","c","o","r","e","-","i","o","s",".","g","i","t">>
ClaimedRepo(name) ==
  IF name \in core_dependencies THEN CoreRepo
  ELSE <<"h","t","t","p","s",":","/","/","g","i","t","h","u","b",".","c","o","m","/","a","d","o","b","e","/","a","e","p","s","d","k","-">> \o lower(StripPrefix(name)) \o <<"-","i","o","s",".","g","i","t">>

KnownName(name) == name \in core_dependencies \/ startswith(name, <<"A","E","P">>)

\* a Package.swift line that declares the repository url from the version v
PackageLine(url, v) ==
  <<".","p","a","c","k","a","g","e","(","u","r","l",":"," ","\"">> \o url \o <<"\"",","," ",".","u","p","T","o","N","e","x","t","M","a","j","o","r","(","f","r","o","m",":"," ","\"">> \o v \o <<"\"",")",")",",","\n">>

\* the file declares the repository url from a version that starts with v
Declares(bytes, url, v) ==
  \E line \in Range(readlines(bytes)) :
     startswith(line, <<".","p","a","c","k","a","g","e","(","u","r","l",":"," ","\"">> \o url \o <<"\"",","," ",".","u","p","T","o","N","e","x","t","M","a","j","o","r","(","f","r","o","m",":"," ","\"">> \o v)

\* the pattern p, followed by a version, matches the declaration of the repository url
AnchorsPackage(p, url) == re_match(p.pattern, VERSION_REGEX, PackageLine(url, <<"0",".","0",".","0">>)) # <<>>

\* the Swift Package Manager patterns the dependency entry k gave the file f
PackagePatterns(k, f) ==
  {p \in Range(DependencyPatterns(f)) :
     p.description = ".upToNextMajor(from:)" /\ p.version = DepVersion(k)}

\* the repositories told apart: the core one, that of a prefixed name, and the one the
\* rest of a core name would spell
Repos ==
  {CoreRepo, <<"h","t","t","p","s",":","/","/","g","i","t","h","u","b",".","c","o","m","/","a","d","o","b","e","/","a","e","p","s","d","k","-","e","d","g","e","-","i","o","s",".","g","i","t">>,
   <<"h","t","t","p","s",":","/","/","g","i","t","h","u","b",".","c","o","m","/","a","d","o","b","e","/","a","e","p","s","d","k","-","s","e","r","v","i","c","e","s","-","i","o","s",".","g","i","t">>}

\* a dependency entry with a version selects the Swift Package Manager template for a
\* name that is neither a core dependency nor prefixed
UnknownPackageName ==
  \E k \in 1..Len(args.dependencies) :
     /\ HasVersion(args.dependencies[k])
     /\ ~KnownName(DepName(k))
     /\ \E e \in Range(DepExpansion(k)) : OverrideOrExtension(e) = K_swift_spm

\* C18: the Swift Package Manager anchor a run holds at its end for a core dependency
\* declares the core repository and that of any other prefixed name the repository named
\* by the lowercased rest of the name, so an update run writes the dependency version on
\* that declaration;
\* a name that is neither aborts the run with exit status 1 before a file is read or
\* written.
C18_SwiftPackageRepo ==
  /\ \A k \in Resolved :
        ~KnownName(DepName(k)) =>
          \A e \in Range(DepExpansion(k)) : OverrideOrExtension(e) # K_swift_spm
  /\ Done =>
        \A k \in Resolved : \A e \in Range(DepExpansion(k)) :
           OverrideOrExtension(e) = K_swift_spm =>
             /\ \E p \in PackagePatterns(k, e[1]) :
                   \A url \in Repos :
                      AnchorsPackage(p, url) <=> url = ClaimedRepo(DepName(k))
             /\ (args.update /\ ~fatal) =>
                   Declares(fs[e[1]], ClaimedRepo(DepName(k)), DepVersion(k))
  /\ \/ /\ pc \in {"ext", "deps", "exit"}
        /\ reads = <<>> /\ writes = <<>> /\ fs = fs0
        /\ Done => (exit_status = 1 /\ fatal)
     \/ ~UnknownPackageName

C18_Witness ==
  /\ Done /\ args.update /\ ~fatal /\ exit_status = 0
  /\ fs[<<"/","r","/","P","a","c","k","a","g","e",".","s","w","i","f","t">>] # fs0[<<"/","r","/","P","a","c","k","a","g","e",".","s","w","i","f","t">>]
  /\ \E j, k \in Resolved :
       /\ DepName(j) \in core_dependencies /\ DepName(j) # <<"A","E","P","C","o","r","e">>
       /\ DepName(k) \notin core_dependencies /\ startswith(DepName(k), <<"A","E","P">>)
       /\ PackagePatterns(j, <<"/","r","/","P","a","c","k","a","g","e",".","s","w","i","f","t">>) # {}
       /\ PackagePatterns(k, <<"/","r","/","P","a","c","k","a","g","e",".","s","w","i","f","t">>) # {}
       /\ Declares(fs[<<"/","r","/","P","a","c","k","a","g","e",".","s","w","i","f","t">>], CoreRepo, DepVersion(j))
       /\ Declares(fs[<<"/","r","/","P","a","c","k","a","g","e",".","s","w","i","f","t">>], <<"h","t","t","p","s",":","/","/","g","i","t","h","u","b",".","c","o","m","/","a","d","o","b","e","/","a","e","p","s","d","k","-","e","d","g","e","-","i","o","s",".","g","i","t">>,
                   DepVersion(k))
       /\ ~Declares(fs0[<<"/","r","/","P","a","c","k","a","g","e",".","s","w","i","f","t">>], CoreRepo, DepVersion(j))

\* a run given a Swift Package Manager dependency of an unknown name has aborted
C18_AbortWitness == UnknownPackageName /\ Done /\ exit_status = 1 /\ reads = <<>>

\* every pattern of the list reads its version with the default grammar VERSION_REGEX
DefaultGrammar(patterns) ==
  \A k \in 1..Len(patterns) : patterns[k].version_pattern \in {<<>>, VERSION_REGEX}

\* the tree whose version-bearing lines carry a token followed by a suffix, and the
\* tree that carries the token alone
SuffixedTree == Tree(<<"1",".","2",".","3","-","b","e","t","a">>)
PlainTree == Tree(<<"1",".","2",".","3">>)

\* C19: in validate mode with the default version grammar the text after the
\* MAJOR.MINOR.PATCH token of a line does not influence the result: every captured
\* version is the token alone, a file whose lines carry 1.2.3-beta gets the result of the
\* same file carrying 1.2.3 (it passes against the expected version 1.2.3), and a file
\* never passes when a pattern of its list expects a version that is not
\* MAJOR.MINOR.PATCH.
C19_SuffixIgnored ==
  ~args.update =>
    \A i \in 1..Len(results) : \A ps \in {results[i].patterns} :
       DefaultGrammar(ps) =>
         /\ \A l \in 1..Len(results[i].table) : \A k \in 1..Len(ps) :
               results[i].table[l][k] # <<>> =>
                 IsVersion(Captured(readlines(fs[results[i].path]), results[i].table, l, k))
         /\ (\E k \in 1..Len(ps) : ~IsVersion(ps[k].version)) => results[i].ret = "False"
         /\ fs = SuffixedTree =>
               results[i].ret = process_file_version(PlainTree[results[i].path], ps, FALSE).ret

C19_Witness ==
  /\ Done /\ ~args.update /\ fs = SuffixedTree /\ args.version = <<"1",".","2",".","3">>
  /\ \E i \in 1..Len(results) :
       /\ results[i].ret = "True"
       /\ results[i].patterns # <<>> /\ DefaultGrammar(results[i].patterns)
       /\ \E l \in 1..Len(results[i].table) :
            /\ results[i].table[l][1] # <<>>
            /\ results[i].table[l][1][2] < Len(readlines(fs[results[i].path])[l]) - 2
            /\ SubSeq(readlines(fs[results[i].path])[l], results[i].table[l][1][2] + 1,
                      results[i].table[l][1][2] + 5) = <<"-","b","e","t","a">>

\* a file whose lines carry 1.2.3-beta was validated against the expected version
\* 1.2.3-beta and failed
C19_NeverWitness ==
  /\ Done /\ ~args.update /\ fs = SuffixedTree /\ args.version = <<"1",".","2",".","3","-","b","e","t","a">>
  /\ \E i \in 1..Len(results) :
       /\ results[i].ret = "False"
       /\ results[i].patterns # <<>> /\ DefaultGrammar(results[i].patterns)
       /\ \E k \in 1..Len(results[i].patterns) :
            /\ results[i].patterns[k].version = <<"1",".","2",".","3","-","b","e","t","a">>
            /\ \E l \in 1..Len(results[i].table) : results[i].table[l][k] # <<>>

====
